---------------------------- MODULE Spec2Model ----------------------------
(***************************************************************************)
(* Model of snarkVM's Authorization                                        *)
(* (synthesizer/process/src/stack/authorization/mod.rs): a handle          *)
(* Arc<RwLock<VecDeque<Request>>> shared by its clones, consumed by next(),*)
(* extended by push(), copied by replicate().                              *)
(*                                                                         *)
(* Every method is modelled as the steps a thread takes: the call, the     *)
(* acquisition of the RwLock (shared or exclusive), and the body, which    *)
(* computes the result and drops the guard (the guard is a temporary of    *)
(* the method's only statement, or a local dropped at the end of the       *)
(* method).                                                                *)
(***************************************************************************)
EXTENDS Naturals, Sequences, FiniteSets, TLC

\* ------------------------------------------------------------------ bounds

\* Longest request sequence an Authorization is constructed from, with one
\* thread (MaxInit) and where threads or authorizations multiply (ConcInit).
MaxInit == 2
ConcInit == 1

\* Most push() calls of one run.
MaxPush == 1

\* ---------------------------------------------------------------- requests

\* A Request as far as this file reads it: its program id (name, network)
\* and its function name.
MkRequest(name, network, function) ==
    [program_id |-> <<name, network>>, function_name |-> function]

FeePrivate == MkRequest("credits", "aleo", "fee_private")
FeePublic  == MkRequest("credits", "aleo", "fee_public")
Transfer   == MkRequest("credits", "aleo", "transfer_public")
TokenFee   == MkRequest("token", "aleo", "fee_private")

Requests == {FeePrivate, FeePublic, Transfer, TokenFee}

\* The requests the specifications with two threads or with replicas draw
\* an authorization from, and the request the latter push.
ConcRequests == {FeePrivate, Transfer}
ShareRequests == {Transfer}

\* ProgramID's Display: "<name>.<network>".
ProgramIdToString(p) == p[1] \o "." \o p[2]

\* Identifier's Display: the identifier itself.
IdentifierToString(i) == "" \o i

\* ------------------------------------------------------------------- state

Threads == {"t1", "t2"}
SeqThreads == {"t1"}

\* Arc allocations (chains). An Authorization value (a handle) is the Arc
\* it holds; for the history only, `fam` records which authorization (the
\* constructed one, or a replica) the handle was made for, and `clone`
\* whether Clone made it.
Chains == 1..2
Handle(c, f, k) == [ref |-> c, fam |-> f, clone |-> k]

\* The handle From returns, on allocation 1.
Orig == Handle(1, 1, FALSE)

VARIABLES
    chain,      \* chain[c]: the VecDeque behind Arc allocation c
    nalloc,     \* number of Arc allocations made so far
    handles,    \* the Authorization values in existence
    writer,     \* writer[c]: the thread holding c's lock exclusively, or "none"
    readers,    \* readers[c]: the threads holding c's lock shared
    pc,         \* pc[t]: "idle", "wait", "locked", "matched", "popping",
                \*        "cloning", "done"
    op,         \* op[t]: the method thread t is in (or has last returned from)
    hd,         \* hd[t]: the handle (self) of that call
    arg,        \* arg[t]: the call's argument (index of get, request of push)
    loc,        \* loc[t]: the scrutinee requests.len() of the match in is_fee_*,
                \*         the element pop_front takes in next, the copy
                \*         VecDeque::clone has made so far in replicate
    res,        \* res[t]: the call's result
    peeked,     \* peeked[t]: what t's previous call returned, if it was peek_next
    nfam,       \* history: number of authorizations made (From, replicate)
    input,      \* history: input[f], requests given to f (construction, pushes)
    ninit,      \* history: ninit[f], how many of them at construction
    delivered   \* history: delivered[f], what next() returned on f, in order

vars == <<chain, nalloc, handles, writer, readers, pc, op, hd, arg, loc, res,
          peeked, nfam, input, ninit, delivered>>

lockVars == <<writer, readers>>
histVars == <<nfam, input, ninit, delivered>>
heapVars == <<chain, nalloc, handles>>


\* ------------------------------------------------------- values and results

None      == [some |-> FALSE]
Some(v)   == [some |-> TRUE, val |-> v]

NoRes     == [kind |-> "none"]
Ok(v)     == [kind |-> "ok", val |-> v]
\* anyhow!(msg): an error that carries its message.
Err(msg)  == [kind |-> "err", msg |-> msg]
\* An index out of bounds in requests[0].
Panic     == [kind |-> "panic"]

\* A call without argument, the index get() is called with, and a thread
\* that keeps nothing of the chain.
NoArg == [arg |-> "none"]
Index(index) == [index |-> index]
NoLoc == [loc |-> "none"]

\* Option::ok_or_else
OkOrElse(o, msg) == IF o.some THEN Ok(o.val) ELSE Err(msg)

\* Sequences over S of length at most n.
BSeq(S, n) == UNION {[1..k -> S] : k \in 0..n}

\* ----------------------------------------------------------------- VecDeque

\* VecDeque::from(Vec): the same elements in the same order.
From(requests) == requests

\* From<Request>, From<&Request>: Self::from(vec![request]).
FromRequest(request) == From(<<request>>)

\* Variant: the index taken as one-based.
GetAtOneBased(q, index) ==
    IF index >= 1 /\ index <= Len(q) THEN Some(q[index]) ELSE None

\* VecDeque::get(index), zero-based.
GetAt(q, index) == IF index < Len(q) THEN Some(q[index + 1]) ELSE None

\* Variant: pop_back in place of pop_front.
PopBack(q) ==
    IF Len(q) = 0 THEN [q |-> q, out |-> None]
    ELSE [q |-> SubSeq(q, 1, Len(q) - 1), out |-> Some(q[Len(q)])]

\* Variant: a deque of one element taken for an empty one.
PopFrontKeepLast(q) ==
    IF Len(q) <= 1 THEN [q |-> q, out |-> None]
    ELSE [q |-> Tail(q), out |-> Some(Head(q))]

\* VecDeque::pop_front: the deque left and the element removed, if any.
PopFront(q) ==
    IF Len(q) = 0 THEN [q |-> q, out |-> None]
    ELSE [q |-> Tail(q), out |-> Some(Head(q))]

\* Variant: a request equal to the last one is not appended again.
PushBackDedup(q, request) ==
    IF Len(q) > 0 /\ q[Len(q)] = request THEN q ELSE Append(q, request)

\* VecDeque::push_back
PushBack(q, request) == Append(q, request)

\* ------------------------------------------------- the methods' computations

\* Variant: the back of the deque in place of its front.
PeekBack(q) ==
    OkOrElse(IF Len(q) = 0 THEN None ELSE Some(q[Len(q)]),
             "Failed to peek at the next request.")

PeekNextResult(q) ==
    OkOrElse(GetAt(q, 0), "Failed to peek at the next request.")

\* Variant: the front is returned and left in place.
NextChainKeep(q) == q

\* Variant: the front is returned and the rest dropped with it.
NextChainClear(q) == <<>>

NextChain(q) == PopFront(q).q

\* Variant: the message of get() without the index.
GetResultNoIndex(q, index) ==
    OkOrElse(GetAt(q, index), "Attempted to get missing request.")

GetResult(q, index) ==
    OkOrElse(GetAt(q, index),
             "Attempted to get missing request " \o ToString(index) \o ".")

LenResult(q) == Len(q)

\* Variant: a chain of one request taken for an empty one.
IsEmptyBelowTwo(q) == Len(q) < 2

IsEmptyResult(q) == q = <<>>

\* Variant: push_front in place of push_back.
PushChainFront(q, request) == <<request>> \o q

PushChain(q, request) == PushBack(q, request)

ToVecDequeResult(q) == q

\* The arm `1 =>` of is_fee_private / is_fee_public: requests[0] is read
\* (a panic when the deque holds nothing) and its two names are compared.
FeeArm(q, function) ==
    IF Len(q) = 0 THEN Panic
    ELSE LET program_id    == ProgramIdToString(q[1].program_id)
             function_name == IdentifierToString(q[1].function_name)
         IN Ok(program_id = "credits.aleo" /\ function_name = function)

\* Variant: the first arm taken for every chain that is not empty.
FeeMatchAny(n, q, function) ==
    IF n >= 1 THEN FeeArm(q, function) ELSE Ok(FALSE)

\* match requests.len() { 1 => ..., _ => false }, the length already read.
FeeMatch(n, q, function) == IF n = 1 THEN FeeArm(q, function) ELSE Ok(FALSE)

IsFeePrivate(q) == FeeMatch(Len(q), q, "fee_private")
IsFeePublic(q)  == FeeMatch(Len(q), q, "fee_public")

\* -------------------------------------------------------------------- calls

ReadOps  == {"is_fee_private", "is_fee_public", "replicate", "peek_next",
             "get", "len", "is_empty", "to_vec_deque"}
WriteOps == {"next", "push"}
Ops      == ReadOps \cup WriteOps

\* The indices get() is called with.
Indices == 0..MaxInit
ConcIndices == 0..ConcInit

\* The chain and the authorization of thread t's call.
ChainOf(t) == hd[t].ref
FamOf(t)   == hd[t].fam

InCall(t) == pc[t] \in {"wait", "locked", "matched", "popping", "cloning"}

\* Calls of replicate() that have not yet made their copy, and calls of
\* push() on authorization f that have not yet appended.
PendingReplicas == Cardinality({t \in Threads : InCall(t) /\ op[t] = "replicate"})
PendingPushes == Cardinality({t \in Threads : InCall(t) /\ op[t] = "push"})
Pushed(f) == Len(input[f]) - ninit[f]
RECURSIVE PushedUpTo(_)
PushedUpTo(f) == IF f = 0 THEN 0 ELSE Pushed(f) + PushedUpTo(f - 1)
AllPushed == PushedUpTo(Cardinality(Chains))

\* What keeps the model finite: a copy needs a free allocation, a push
\* must stay within MaxPush.
Within(o, h) ==
    /\ o = "replicate" =>
          /\ nalloc + PendingReplicas < Cardinality(Chains)
          /\ nfam + PendingReplicas < Cardinality(Chains)
    /\ o = "push" => AllPushed + PendingPushes < MaxPush

\* Thread t calls method o on handle h. (The argument of get and push is
\* drawn where the body reads it.) A next() called right after a peek_next()
\* on the same handle keeps what that peek_next() returned.
Call(t, o, h) ==
    /\ pc[t] \in {"idle", "done"}
    /\ h \in handles
    /\ Within(o, h)
    /\ pc' = [pc EXCEPT ![t] = "wait"]
    /\ op' = [op EXCEPT ![t] = o]
    /\ hd' = [hd EXCEPT ![t] = h]
    /\ arg' = [arg EXCEPT ![t] = NoArg]
    /\ res' = [res EXCEPT ![t] = NoRes]
    /\ peeked' = [peeked EXCEPT ![t] =
                    IF pc[t] = "done" /\ op[t] = "peek_next" /\ hd[t] = h
                       /\ o = "next"
                    THEN res[t] ELSE NoRes]
    /\ UNCHANGED <<heapVars, lockVars, loc, histVars>>

\* Variant: a clone that copies into an allocation of its own.
CloneArcDeep(c, n) == IF n + 1 \in Chains THEN n + 1 ELSE c

\* Arc::clone: the allocation the clone of an Arc on c points to, n
\* allocations having been made.
CloneArc(c, n) == c

\* The clone of handle h.
CloneOf(h, n) == Handle(CloneArc(h.ref, n), h.fam, TRUE)

\* #[derive(Clone)]: a handle made of the clone of the Arc.
Clone(h) ==
    /\ h \in handles
    /\ LET g == CloneOf(h, nalloc)
       IN /\ g.ref \in Chains
          /\ handles' = handles \cup {g}
          /\ chain' = [chain EXCEPT ![g.ref] = chain[h.ref]]
          /\ nalloc' = IF g.ref > nalloc THEN g.ref ELSE nalloc
    /\ UNCHANGED <<lockVars, pc, op, hd, arg, loc, res, peeked, histVars>>

\* ------------------------------------------------------------------- RwLock

\* Variant: a reader enters although a writer holds the lock.
AcquireReadUnguarded(t) ==
    /\ pc[t] = "wait"
    /\ op[t] \in ReadOps
    /\ readers' = [readers EXCEPT ![ChainOf(t)] = @ \cup {t}]
    /\ pc' = [pc EXCEPT ![t] = "locked"]
    /\ UNCHANGED <<heapVars, writer, op, hd, arg, loc, res, peeked, histVars>>

\* RwLock::read(): shared, once no thread holds the lock exclusively.
AcquireRead(t) ==
    /\ pc[t] = "wait"
    /\ op[t] \in ReadOps
    /\ writer[ChainOf(t)] = "none"
    /\ readers' = [readers EXCEPT ![ChainOf(t)] = @ \cup {t}]
    /\ pc' = [pc EXCEPT ![t] = "locked"]
    /\ UNCHANGED <<heapVars, writer, op, hd, arg, loc, res, peeked, histVars>>

\* Variant: next() and push() enter without excluding anyone.
AcquireWriteShared(t) ==
    /\ pc[t] = "wait"
    /\ op[t] \in WriteOps
    /\ writer' = [writer EXCEPT ![ChainOf(t)] = t]
    /\ pc' = [pc EXCEPT ![t] = "locked"]
    /\ UNCHANGED <<heapVars, readers, op, hd, arg, loc, res, peeked, histVars>>

\* Variant: next() and push() wait for a writer but not for the readers.
AcquireWriteOverReaders(t) ==
    /\ pc[t] = "wait"
    /\ op[t] \in WriteOps
    /\ writer[ChainOf(t)] = "none"
    /\ writer' = [writer EXCEPT ![ChainOf(t)] = t]
    /\ pc' = [pc EXCEPT ![t] = "locked"]
    /\ UNCHANGED <<heapVars, readers, op, hd, arg, loc, res, peeked, histVars>>

\* RwLock::write(): exclusive, once no thread holds the lock at all.
AcquireWrite(t) ==
    /\ pc[t] = "wait"
    /\ op[t] \in WriteOps
    /\ writer[ChainOf(t)] = "none"
    /\ readers[ChainOf(t)] = {}
    /\ writer' = [writer EXCEPT ![ChainOf(t)] = t]
    /\ pc' = [pc EXCEPT ![t] = "locked"]
    /\ UNCHANGED <<heapVars, readers, op, hd, arg, loc, res, peeked, histVars>>

\* Variant: the read guard is never dropped.
ReleaseReadKept(t) == UNCHANGED readers

\* The read guard of thread t is dropped.
ReleaseRead(t) == readers' = [readers EXCEPT ![ChainOf(t)] = @ \ {t}]

\* The write guard of thread t is dropped.
ReleaseWrite(t) == writer' = [writer EXCEPT ![ChainOf(t)] = "none"]

\* Thread t returns r from its call.
Return(t, r) ==
    /\ res' = [res EXCEPT ![t] = r]
    /\ pc' = [pc EXCEPT ![t] = "done"]

\* ------------------------------------------------------------------ methods

\* Variant: the length is read under a guard that is dropped at once.
MatchLenUnlocked(t) ==
    /\ pc[t] = "locked"
    /\ op[t] \in {"is_fee_private", "is_fee_public"}
    /\ loc' = [loc EXCEPT ![t] = [len |-> Len(chain[ChainOf(t)])]]
    /\ pc' = [pc EXCEPT ![t] = "matched"]
    /\ readers' = [readers EXCEPT ![ChainOf(t)] = @ \ {t}]
    /\ UNCHANGED <<heapVars, writer, op, hd, arg, res, peeked, histVars>>

\* is_fee_private / is_fee_public, first step: under the read guard
\* `requests`, requests.len() is evaluated as the scrutinee of the match.
MatchLen(t) ==
    /\ pc[t] = "locked"
    /\ op[t] \in {"is_fee_private", "is_fee_public"}
    /\ loc' = [loc EXCEPT ![t] = [len |-> Len(chain[ChainOf(t)])]]
    /\ pc' = [pc EXCEPT ![t] = "matched"]
    /\ UNCHANGED <<heapVars, lockVars, op, hd, arg, res, peeked, histVars>>

\* is_fee_private, second step: the arm is evaluated, the guard dropped.
is_fee_private(t) ==
    /\ pc[t] = "matched"
    /\ op[t] = "is_fee_private"
    /\ Return(t, FeeMatch(loc[t].len, chain[ChainOf(t)], "fee_private"))
    /\ ReleaseRead(t)
    /\ loc' = [loc EXCEPT ![t] = NoLoc]
    /\ UNCHANGED <<heapVars, writer, op, hd, arg, peeked, histVars>>

\* is_fee_public, second step.
is_fee_public(t) ==
    /\ pc[t] = "matched"
    /\ op[t] = "is_fee_public"
    /\ Return(t, FeeMatch(loc[t].len, chain[ChainOf(t)], "fee_public"))
    /\ ReleaseRead(t)
    /\ loc' = [loc EXCEPT ![t] = NoLoc]
    /\ UNCHANGED <<heapVars, writer, op, hd, arg, peeked, histVars>>

\* VecDeque::clone in replicate(), one element: the copy so far, extended
\* by the element of q that follows those copied, if there is one.
CloneElement(copy, q) ==
    IF Len(copy) < Len(q) THEN Append(copy, q[Len(copy) + 1]) ELSE copy

\* The copy thread t has made so far.
Copied(t) == IF pc[t] = "cloning" THEN loc[t].copy ELSE <<>>

\* Variant: each element is copied under a lock hold of its own.
CloneStepUnlocked(t) ==
    /\ pc[t] \in {"locked", "cloning"}
    /\ op[t] = "replicate"
    /\ Len(Copied(t)) < Len(chain[ChainOf(t)])
    /\ loc' = [loc EXCEPT ![t] =
                 [copy |-> CloneElement(Copied(t), chain[ChainOf(t)])]]
    /\ pc' = [pc EXCEPT ![t] = "cloning"]
    /\ readers' = [readers EXCEPT ![ChainOf(t)] = @ \ {t}]
    /\ UNCHANGED <<heapVars, writer, op, hd, arg, res, peeked, histVars>>

\* replicate(), the steps of read().clone(): under the read guard the
\* elements are copied front to back, one at a time.
CloneStep(t) ==
    /\ pc[t] \in {"locked", "cloning"}
    /\ op[t] = "replicate"
    /\ Len(Copied(t)) < Len(chain[ChainOf(t)])
    /\ loc' = [loc EXCEPT ![t] =
                 [copy |-> CloneElement(Copied(t), chain[ChainOf(t)])]]
    /\ pc' = [pc EXCEPT ![t] = "cloning"]
    /\ UNCHANGED <<heapVars, lockVars, op, hd, arg, res, peeked, histVars>>

\* Variant: the replica shares the allocation it was made from.
ReplicaArcShared(c) == c

\* Arc::new in replicate(): a fresh allocation for the copy of allocation c.
ReplicaArc(c) == nalloc + 1

\* replicate(), last step: the copy is complete, the guard is dropped and
\* the copy goes into an allocation of its own.
\* Self { requests: Arc::new(RwLock::new(read().clone())) }
replicate(t) ==
    /\ pc[t] \in {"locked", "cloning"}
    /\ op[t] = "replicate"
    /\ Len(Copied(t)) >= Len(chain[ChainOf(t)])
    /\ LET c == ChainOf(t)
           n == ReplicaArc(c)
           f == nfam + 1
           h == Handle(n, f, FALSE)
           copy == Copied(t)
       IN /\ n \in Chains
          /\ f \in Chains
          /\ chain' = [chain EXCEPT ![n] = copy]
          /\ nalloc' = IF n > nalloc THEN n ELSE nalloc
          /\ handles' = handles \cup {h}
          /\ nfam' = f
          /\ input' = [input EXCEPT ![f] = copy]
          /\ ninit' = [ninit EXCEPT ![f] = Len(copy)]
          /\ delivered' = [delivered EXCEPT ![f] = <<>>]
          /\ Return(t, Ok(h))
    /\ ReleaseRead(t)
    /\ loc' = [loc EXCEPT ![t] = NoLoc]
    /\ UNCHANGED <<writer, op, hd, arg, peeked>>

\* Variant: peek_next() written with the expression of next().
PeekNextTake(t) ==
    /\ pc[t] = "locked"
    /\ op[t] = "peek_next"
    /\ Return(t, PeekNextResult(chain[ChainOf(t)]))
    /\ ReleaseRead(t)
    /\ chain' = [chain EXCEPT ![ChainOf(t)] = NextChain(@)]
    /\ UNCHANGED <<nalloc, handles, writer, op, hd, arg, loc, peeked, histVars>>

\* peek_next(): read().get(0).cloned().ok_or_else(..)
peek_next(t) ==
    /\ pc[t] = "locked"
    /\ op[t] = "peek_next"
    /\ Return(t, PeekNextResult(chain[ChainOf(t)]))
    /\ ReleaseRead(t)
    /\ UNCHANGED <<heapVars, writer, op, hd, arg, loc, peeked, histVars>>

\* next(), first step: under the write guard pop_front reads the front
\* element, if there is one.
PopFrontRead(t) ==
    /\ pc[t] = "locked"
    /\ op[t] = "next"
    /\ loc' = [loc EXCEPT ![t] = PopFront(chain[ChainOf(t)]).out]
    /\ pc' = [pc EXCEPT ![t] = "popping"]
    /\ UNCHANGED <<heapVars, lockVars, op, hd, arg, res, peeked, histVars>>

\* next(), second step: pop_front moves the head past that element; the
\* element (or the error) is returned and the guard dropped.
\* write().pop_front().ok_or_else(..)
next(t) ==
    /\ pc[t] = "popping"
    /\ op[t] = "next"
    /\ LET r == OkOrElse(loc[t], "No more requests in the authorization.")
       IN /\ chain' = [chain EXCEPT ![ChainOf(t)] = NextChain(@)]
          /\ delivered' = [delivered EXCEPT ![FamOf(t)] =
                             IF r.kind = "ok" THEN Append(@, r.val) ELSE @]
          /\ Return(t, r)
    /\ ReleaseWrite(t)
    /\ loc' = [loc EXCEPT ![t] = NoLoc]
    /\ UNCHANGED <<nalloc, handles, readers, op, hd, arg, peeked,
                   nfam, input, ninit>>

\* get(index): read().get(index).cloned().ok_or_else(..)
get(t, index) ==
    /\ pc[t] = "locked"
    /\ op[t] = "get"
    /\ arg' = [arg EXCEPT ![t] = Index(index)]
    /\ Return(t, GetResult(chain[ChainOf(t)], index))
    /\ ReleaseRead(t)
    /\ UNCHANGED <<heapVars, writer, op, hd, loc, peeked, histVars>>

\* len(): read().len()
len(t) ==
    /\ pc[t] = "locked"
    /\ op[t] = "len"
    /\ Return(t, Ok(LenResult(chain[ChainOf(t)])))
    /\ ReleaseRead(t)
    /\ UNCHANGED <<heapVars, writer, op, hd, arg, loc, peeked, histVars>>

\* is_empty(): read().is_empty()
is_empty(t) ==
    /\ pc[t] = "locked"
    /\ op[t] = "is_empty"
    /\ Return(t, Ok(IsEmptyResult(chain[ChainOf(t)])))
    /\ ReleaseRead(t)
    /\ UNCHANGED <<heapVars, writer, op, hd, arg, loc, peeked, histVars>>

\* push(request): write().push_back(request)
push(t, request) ==
    /\ pc[t] = "locked"
    /\ op[t] = "push"
    /\ arg' = [arg EXCEPT ![t] = request]
    /\ chain' = [chain EXCEPT ![ChainOf(t)] = PushChain(@, request)]
    /\ input' = [input EXCEPT ![FamOf(t)] = Append(@, request)]
    /\ Return(t, Ok(NoArg))
    /\ ReleaseWrite(t)
    /\ UNCHANGED <<nalloc, handles, readers, op, hd, loc, peeked,
                   nfam, ninit, delivered>>

\* to_vec_deque(): read().clone()
to_vec_deque(t) ==
    /\ pc[t] = "locked"
    /\ op[t] = "to_vec_deque"
    /\ Return(t, Ok(ToVecDequeResult(chain[ChainOf(t)])))
    /\ ReleaseRead(t)
    /\ UNCHANGED <<heapVars, writer, op, hd, arg, loc, peeked, histVars>>

\* ----------------------------------------------------------- specifications

\* Authorization::from(requests), in allocation 1, and the clones made of
\* it for the threads, if any (G is {Orig}, or Orig and its clone); no
\* thread has called anything yet.
InitFrom(requests, G) ==
    /\ chain = [c \in Chains |->
                  IF \E g \in G : g.ref = c THEN From(requests) ELSE <<>>]
    /\ nalloc = Cardinality({g.ref : g \in G})
    /\ handles = G
    /\ writer = [c \in Chains |-> "none"]
    /\ readers = [c \in Chains |-> {}]
    /\ pc = [t \in Threads |-> "idle"]
    /\ op = [t \in Threads |-> "none"]
    /\ hd = [t \in Threads |-> Orig]
    /\ arg = [t \in Threads |-> NoArg]
    /\ loc = [t \in Threads |-> NoLoc]
    /\ res = [t \in Threads |-> NoRes]
    /\ peeked = [t \in Threads |-> NoRes]
    /\ nfam = 1
    /\ input = [f \in Chains |-> IF f = 1 THEN requests ELSE <<>>]
    /\ ninit = [f \in Chains |-> IF f = 1 THEN Len(requests) ELSE 0]
    /\ delivered = [f \in Chains |-> <<>>]

\* The same, of at most n requests drawn over R.
InitOf(R, n, G) == \E requests \in BSeq(R, n) : InitFrom(requests, G)

\* The steps of thread t in the methods that read or change the chain, its
\* requests drawn from R and its indices from I.
Access(t, R, I) ==
    \/ AcquireRead(t)
    \/ AcquireWrite(t)
    \/ peek_next(t)
    \/ PopFrontRead(t)
    \/ next(t)
    \/ \E index \in I : get(t, index)
    \/ len(t)
    \/ \E request \in R : push(t, request)
    \/ to_vec_deque(t)

\* The steps of thread t in the predicates.
Predicate(t) ==
    \/ MatchLen(t)
    \/ is_fee_private(t)
    \/ is_fee_public(t)
    \/ is_empty(t)

AccessOps == {"peek_next", "next", "get", "len", "push", "to_vec_deque"}

\* One thread on one authorization and its only handle.
InitSeq == InitOf(Requests, MaxInit, {Orig})
NextSeq ==
    \E t \in SeqThreads :
        \/ \E o \in Ops \ {"replicate"} : Call(t, o, Orig)
        \/ Access(t, Requests, Indices)
        \/ Predicate(t)
SpecSeq == InitSeq /\ [][NextSeq]_vars

\* One thread on the clones and replicas of one authorization, in the
\* methods that read or change a chain.
InitShare == InitOf(ConcRequests, ConcInit, {Orig})
NextShare ==
    \/ \E h \in handles : Clone(h)
    \/ \E t \in SeqThreads :
        \/ \E o \in AccessOps \cup {"replicate"}, h \in handles : Call(t, o, h)
        \/ CloneStep(t)
        \/ replicate(t)
        \/ Access(t, ShareRequests, ConcIndices)
SpecShare == InitShare /\ [][NextShare]_vars

\* The handle each thread holds: the first the original, the others its
\* clone.
Held(t) == IF t = "t1" THEN Orig ELSE CloneOf(Orig, 1)

\* Two threads, each on its own clone of one authorization.
Init == InitOf(ConcRequests, ConcInit, {Held(t) : t \in Threads})
Next ==
    \E t \in Threads :
        \/ \E o \in Ops \ {"replicate"} : Call(t, o, Held(t))
        \/ Access(t, ConcRequests, ConcIndices)
        \/ Predicate(t)
Spec == Init /\ [][Next]_vars

\* One thread on an authorization constructed from three different
\* requests, to which a fourth is pushed.
ScenarioChain == <<FeePrivate, FeePublic, Transfer>>
ScenarioPush  == TokenFee

InitScenario == InitFrom(ScenarioChain, {Orig})
NextScenario ==
    \E t \in SeqThreads :
        \/ \E o \in AccessOps : Call(t, o, Orig)
        \/ Access(t, {ScenarioPush}, Indices)
SpecScenario == InitScenario /\ [][NextScenario]_vars

\* One thread in every method, on one authorization and its replica.
InitFrame == InitOf(ConcRequests, ConcInit, {Orig})
NextFrame ==
    \E t \in SeqThreads :
        \/ \E o \in Ops, h \in handles : Call(t, o, h)
        \/ CloneStep(t)
        \/ replicate(t)
        \/ Access(t, ShareRequests, ConcIndices)
        \/ Predicate(t)
SpecFrame == InitFrame /\ [][NextFrame]_vars

\* Two threads, each on its own clone of one authorization, in every method;
\* the replicas made are left alone. The authorization is constructed from
\* fee requests, and other requests are pushed to it.
InitLin == InitOf({FeePrivate}, ConcInit, {Held(t) : t \in Threads})
NextLin ==
    \E t \in Threads :
        \/ \E o \in Ops : Call(t, o, Held(t))
        \/ CloneStep(t)
        \/ replicate(t)
        \/ Access(t, ShareRequests, ConcIndices)
        \/ Predicate(t)
SpecLin == InitLin /\ [][NextLin]_vars

\* Two threads in every method, each on its own clone of an authorization
\* constructed from one request. A thread that can take a step of a
\* method's body does; RwLock is fair: a thread that waits for the lock
\* gets it if the lock is free for it again and again.
InitFair == InitFrom(<<Transfer>>, {Held(t) : t \in Threads})
Body(t) ==
    \/ CloneStep(t)
    \/ replicate(t)
    \/ peek_next(t)
    \/ PopFrontRead(t)
    \/ next(t)
    \/ \E index \in ConcIndices : get(t, index)
    \/ len(t)
    \/ \E request \in ShareRequests : push(t, request)
    \/ to_vec_deque(t)
    \/ Predicate(t)
NextFair ==
    \E t \in Threads :
        \/ \E o \in Ops : Call(t, o, Held(t))
        \/ AcquireRead(t)
        \/ AcquireWrite(t)
        \/ Body(t)
\* Where each thread is in its call; every step of a method changes it.
position == <<pc, [t \in Threads |-> Len(Copied(t))]>>
Fairness ==
    \A t \in Threads :
        /\ SF_position(AcquireRead(t))
        /\ SF_position(AcquireWrite(t))
        /\ WF_position(Body(t))
SpecFair == InitFair /\ [][NextFair]_vars /\ Fairness

\* ------------------------------------------------------------------ claims

\* Thread t has returned from method o, and has not called again.
Done(t, o) == pc[t] = "done" /\ op[t] = o

\* (Of a step.) Thread t returns from method o.
Returns(t, o) == pc[t] # "done" /\ pc'[t] = "done" /\ op[t] = o

Succeeded(t) == res[t].kind = "ok"
Failed(t)    == res[t].kind = "err"

IsPrefix(s, u) == Len(s) <= Len(u) /\ \A i \in 1..Len(s) : s[i] = u[i]

\* By the history of authorization f: the sequence it was constructed from,
\* and what is left of all it was given once what next() returned is taken
\* off its front.
Constructed(f) == SubSeq(input[f], 1, ninit[f])
Rest(f) == SubSeq(input[f], Len(delivered[f]) + 1, Len(input[f]))

Families == 1..nfam

\* C1: with two threads calling next() on clones of one handle, the i-th
\* call to take effect receives the i-th request given to the authorization
\* (so none is skipped and none is delivered twice), and two threads that
\* have both received a request hold two different deliveries.
C1_ExactlyOnceFifo ==
    /\ \A f \in Families : IsPrefix(delivered[f], input[f])
    /\ \A t, u \in Threads :
          (/\ t # u
           /\ Done(t, "next") /\ Succeeded(t)
           /\ Done(u, "next") /\ Succeeded(u)
           /\ FamOf(t) = FamOf(u))
          => \E i, j \in 1..Len(delivered[FamOf(t)]) :
                /\ i # j
                /\ delivered[FamOf(t)][i] = res[t].val
                /\ delivered[FamOf(t)][j] = res[u].val

\* C1, its case: the two threads, on different clones, have each received
\* one of two different requests.
C1_Witness ==
    /\ Done("t1", "next") /\ Succeeded("t1")
    /\ Done("t2", "next") /\ Succeeded("t2")
    /\ hd["t1"] # hd["t2"]
    /\ res["t1"].val # res["t2"].val
    /\ Len(delivered[1]) = 2

\* C2: as long as nothing was pushed, what next() has returned is a prefix
\* of the sequence S the authorization was constructed from, and a next()
\* that fails has been preceded by exactly the calls that returned S.
C2_DrainsInOrder ==
    \A f \in Families :
        Pushed(f) = 0 =>
            /\ IsPrefix(delivered[f], Constructed(f))
            /\ \A t \in Threads :
                  (Done(t, "next") /\ FamOf(t) = f /\ Failed(t))
                  => delivered[f] = Constructed(f)

\* C2, its case: next() has failed after returning the two different
\* requests of S.
C2_Witness ==
    /\ Done("t1", "next") /\ Failed("t1")
    /\ Pushed(1) = 0
    /\ Len(delivered[1]) = 2
    /\ delivered[1][1] # delivered[1][2]

\* C3: the handles of one authorization (the original and its clones) all
\* hold the same allocation, also once replicas exist, and what len(),
\* get(), peek_next() and to_vec_deque() return through any of them is
\* computed from everything pushed and consumed so far through all of them.
C3_ClonesShare ==
    /\ \A h, g \in handles : h.fam = g.fam => h.ref = g.ref
    /\ \A t \in Threads :
          pc[t] = "done" =>
             LET q == Rest(FamOf(t))
             IN /\ op[t] = "len" => res[t] = Ok(Len(q))
                /\ op[t] = "get" => res[t] = GetResult(q, arg[t].index)
                /\ op[t] = "peek_next" => res[t] = PeekNextResult(q)
                /\ op[t] = "to_vec_deque" => res[t] = Ok(q)

\* C3, its case: a replica exists, a request was pushed to the original
\* after it was made, and len() through a clone of the original counts it.
C3_Witness ==
    /\ nfam = 2
    /\ Len(input[2]) < Len(input[1])
    /\ Pushed(1) = 1
    /\ delivered[1] = <<>>
    /\ Done("t1", "len")
    /\ hd["t1"].fam = 1 /\ hd["t1"].clone
    /\ res["t1"].val = Len(input[1])

\* C4: the step in which replicate() returns leaves the replica's chain
\* equal to the source's, in an allocation of its own; and a step in which
\* push() or next() returns changes no chain a handle of another
\* authorization holds.
C4_ReplicaIsolated ==
    [][\A t \in Threads :
          /\ Returns(t, "replicate") =>
                /\ res'[t].val.ref # ChainOf(t)
                /\ chain'[res'[t].val.ref] = chain'[ChainOf(t)]
                /\ chain'[ChainOf(t)] = chain[ChainOf(t)]
          /\ (Returns(t, "push") \/ Returns(t, "next")) =>
                \A h \in handles :
                    h.fam # FamOf(t) => chain'[h.ref] = chain[h.ref]
      ]_vars

\* C4, its case: after the replica of <<FeePrivate>> was made, a request
\* was pushed to the original and the replica was emptied; each chain
\* shows only its own change.
C4_Witness ==
    /\ nfam = 2
    /\ input[2] = <<FeePrivate>>
    /\ delivered[2] = <<FeePrivate>>
    /\ chain[2] = <<>>
    /\ chain[1] = <<FeePrivate, Transfer>>

\* C5: next() and peek_next() fail exactly when the chain is empty, each
\* with its empty-chain error, and a next() that fails leaves every chain
\* as it was (empty).
C5_FailsIffEmpty ==
    [][\A t \in Threads :
          /\ Returns(t, "next") =>
                /\ res'[t].kind \in {"ok", "err"}
                /\ res'[t].kind = "err" <=> chain[ChainOf(t)] = <<>>
                /\ res'[t].kind = "err" =>
                      /\ res'[t].msg = "No more requests in the authorization."
                      /\ chain' = chain
                      /\ Len(chain'[ChainOf(t)]) = 0
          /\ Returns(t, "peek_next") =>
                /\ res'[t].kind \in {"ok", "err"}
                /\ res'[t].kind = "err" <=> chain[ChainOf(t)] = <<>>
                /\ res'[t].kind = "err" =>
                      res'[t].msg = "Failed to peek at the next request."
      ]_vars

\* C5, its case: on a chain emptied by next(), peek_next() has failed and
\* then next() has failed.
C5_Witness ==
    /\ Done("t1", "next") /\ Failed("t1")
    /\ peeked["t1"].kind = "err"
    /\ Len(delivered[1]) >= 1
    /\ chain[1] = <<>>

\* C6: get(i) leaves the chain as it was; for i < len() it returns the
\* i-th element (from zero) of to_vec_deque(), and for i >= len() it fails
\* with the error that names i.
C6_GetByIndex ==
    [][\A t \in Threads :
          Returns(t, "get") =>
             LET i == arg'[t].index
                 q == chain[ChainOf(t)]
             IN /\ chain' = chain
                /\ i < LenResult(q) =>
                      /\ res'[t].kind = "ok"
                      /\ res'[t].val = ToVecDequeResult(q)[i + 1]
                /\ i >= LenResult(q) =>
                      /\ res'[t].kind = "err"
                      /\ res'[t].msg = "Attempted to get missing request "
                                         \o ToString(i) \o "."
      ]_vars

\* C6, its case: get(1) has returned the second of two different requests.
C6_Witness ==
    /\ Done("t1", "get") /\ Succeeded("t1")
    /\ arg["t1"] = Index(1)
    /\ Len(chain[1]) >= 2
    /\ chain[1][1] # chain[1][2]
    /\ res["t1"].val = chain[1][2]

\* C7, as the claim states it: every next() lowers len() by exactly one,
\* every push() raises it by exactly one, and len() of an authorization
\* just constructed from S is |S|.
C7_EveryNextLowersLen ==
    [][\A t \in Threads :
          /\ Returns(t, "next") =>
                LenResult(chain'[ChainOf(t)]) + 1 = LenResult(chain[ChainOf(t)])
          /\ Returns(t, "push") =>
                LenResult(chain'[ChainOf(t)]) = LenResult(chain[ChainOf(t)]) + 1
          /\ (Returns(t, "len") /\ delivered[FamOf(t)] = <<>>
                /\ Pushed(FamOf(t)) = 0) =>
                res'[t] = Ok(ninit[FamOf(t)])
      ]_vars

\* C7, amended: every next() that succeeds lowers len() by exactly one and
\* a next() that fails leaves it at 0; every push() raises it by exactly
\* one; len() of an authorization just constructed from S is |S|.
C7_LenCounts ==
    [][\A t \in Threads :
          /\ (Returns(t, "next") /\ res'[t].kind = "ok") =>
                LenResult(chain'[ChainOf(t)]) + 1 = LenResult(chain[ChainOf(t)])
          /\ (Returns(t, "next") /\ res'[t].kind # "ok") =>
                /\ LenResult(chain'[ChainOf(t)]) = 0
                /\ LenResult(chain[ChainOf(t)]) = 0
          /\ Returns(t, "push") =>
                LenResult(chain'[ChainOf(t)]) = LenResult(chain[ChainOf(t)]) + 1
          /\ (Returns(t, "len") /\ delivered[FamOf(t)] = <<>>
                /\ Pushed(FamOf(t)) = 0) =>
                res'[t] = Ok(ninit[FamOf(t)])
      ]_vars

\* C7, its case: after one next() and one push(), len() is again |S|.
C7_Witness ==
    /\ Done("t1", "len")
    /\ Len(delivered[1]) = 1
    /\ Pushed(1) = 1
    /\ ninit[1] = 2
    /\ res["t1"].val = 2

\* C8: with one thread, a next() called right after a peek_next() that
\* returned a request returns that request, and the request a peek_next()
\* has returned is still the front of the chain.
C8_PeekThenNext ==
    \A t \in Threads :
        /\ (Done(t, "next") /\ peeked[t].kind = "ok") =>
              /\ Succeeded(t)
              /\ res[t].val = peeked[t].val
        /\ (Done(t, "peek_next") /\ Succeeded(t)) =>
              /\ Len(chain[ChainOf(t)]) >= 1
              /\ chain[ChainOf(t)][1] = res[t].val

\* C8, its case: next() has followed a peek_next() on a chain of two
\* different requests and returned the first.
C8_Witness ==
    /\ Done("t1", "next")
    /\ peeked["t1"].kind = "ok"
    /\ Len(input[1]) = 2
    /\ input[1][1] # input[1][2]
    /\ delivered[1] = <<input[1][1]>>

\* The chain q is the single call credits.aleo/<function>.
SingleCall(q, function) ==
    /\ Len(q) = 1
    /\ q[1].program_id = <<"credits", "aleo">>
    /\ q[1].function_name = function

\* C9: is_fee_private() (is_fee_public()) is true exactly of a chain of
\* length 1 whose request is credits.aleo/fee_private (fee_public): both
\* as computed on every chain reached and as returned to the caller.
C9_Classification ==
    /\ \A c \in 1..nalloc :
          /\ IsFeePrivate(chain[c]) = Ok(SingleCall(chain[c], "fee_private"))
          /\ IsFeePublic(chain[c]) = Ok(SingleCall(chain[c], "fee_public"))
    /\ \A t \in Threads :
          /\ Done(t, "is_fee_private") =>
                res[t] = Ok(SingleCall(chain[ChainOf(t)], "fee_private"))
          /\ Done(t, "is_fee_public") =>
                res[t] = Ok(SingleCall(chain[ChainOf(t)], "fee_public"))

\* C9, its case: is_fee_private() has returned false on a chain of two
\* requests whose first is credits.aleo/fee_private.
C9_Witness ==
    /\ Done("t1", "is_fee_private")
    /\ res["t1"].val = FALSE
    /\ Len(chain[1]) = 2
    /\ chain[1][1] = FeePrivate

\* The two predicates, as thread t has them returned.
FeeOps == {"is_fee_private", "is_fee_public"}

\* C10: of an authorization constructed from the single request
\* credits.aleo/fee_private, is_fee_private() returns true and
\* is_fee_public() false; after one push() both return false; after next()
\* has emptied the chain both return false.
C10_ClassificationFollows ==
    \A t \in Threads :
        (/\ pc[t] = "done" /\ op[t] \in FeeOps
         /\ Constructed(FamOf(t)) = <<FeePrivate>>)
        => LET f == FamOf(t)
           IN /\ (Pushed(f) = 0 /\ delivered[f] = <<>>) =>
                    res[t] = Ok(op[t] = "is_fee_private")
              /\ (Pushed(f) = 1 /\ delivered[f] = <<>>) => res[t] = Ok(FALSE)
              /\ (delivered[f] = input[f]) => res[t] = Ok(FALSE)

\* C10, its case: next() has emptied the chain constructed from
\* credits.aleo/fee_private, and is_fee_private() has returned false.
C10_Witness ==
    /\ Done("t1", "is_fee_private")
    /\ input[1] = <<FeePrivate>>
    /\ delivered[1] = <<FeePrivate>>
    /\ res["t1"].val = FALSE

\* C11: of the authorization constructed from <<A, B, C>>: next() returns
\* A, and then len() is 2; D pushed then, the chain is <<B, C, D>> and
\* get(2) returns D; the next two next() return B and C, and then len() is
\* 1 and peek_next() returns D; next() returns D, and every next() after
\* that fails with its empty-chain error. In general push() appends at the
\* back and next() takes from the front, so a pushed request is returned
\* after all that were in the chain when it was pushed.
C11_Scenario ==
    [][LET A == ScenarioChain[1]
           B == ScenarioChain[2]
           C == ScenarioChain[3]
           D == ScenarioPush
       IN \A t \in Threads :
            /\ (Returns(t, "next") /\ delivered[1] = <<>>) => res'[t] = Ok(A)
            /\ (Returns(t, "len") /\ delivered[1] = <<A>> /\ Pushed(1) = 0) =>
                  res'[t] = Ok(2)
            /\ (Returns(t, "push") /\ delivered[1] = <<A>> /\ Pushed(1) = 0
                   /\ arg'[t] = D) =>
                  chain'[1] = <<B, C, D>>
            /\ (Returns(t, "get") /\ chain[1] = <<B, C, D>>
                   /\ arg'[t] = Index(2)) =>
                  res'[t] = Ok(D)
            /\ (Returns(t, "next") /\ chain[1] = <<B, C, D>>) =>
                  res'[t] = Ok(B) /\ chain'[1] = <<C, D>>
            /\ (Returns(t, "next") /\ chain[1] = <<C, D>>) =>
                  res'[t] = Ok(C) /\ chain'[1] = <<D>>
            /\ (Returns(t, "len") /\ chain[1] = <<D>>) => res'[t] = Ok(1)
            /\ (Returns(t, "peek_next") /\ chain[1] = <<D>>) =>
                  res'[t] = Ok(D) /\ chain'[1] = <<D>>
            /\ (Returns(t, "next") /\ chain[1] = <<D>>) =>
                  res'[t] = Ok(D) /\ chain'[1] = <<>>
            /\ (Returns(t, "next") /\ delivered[1] = <<A, B, C, D>>
                   /\ Pushed(1) = 1) =>
                  res'[t] = Err("No more requests in the authorization.")
            /\ Returns(t, "push") =>
                  \E k \in 1..Len(chain'[ChainOf(t)]) :
                      /\ k = Len(chain[ChainOf(t)]) + 1
                      /\ chain'[ChainOf(t)][k] = arg'[t]
                      /\ SubSeq(chain'[ChainOf(t)], 1, k - 1) = chain[ChainOf(t)]
            /\ (Returns(t, "next") /\ chain[ChainOf(t)] # <<>>) =>
                  /\ res'[t] = Ok(chain[ChainOf(t)][1])
                  /\ chain'[ChainOf(t)] =
                        SubSeq(chain[ChainOf(t)], 2, Len(chain[ChainOf(t)]))
       ]_vars

\* C11, its case: D was pushed; A, B, C and D were returned in this order,
\* and a further next() has failed.
C11_Witness ==
    /\ Done("t1", "next") /\ Failed("t1")
    /\ input[1] = <<FeePrivate, FeePublic, Transfer, TokenFee>>
    /\ delivered[1] = input[1]
    /\ chain[1] = <<>>

\* (Of a step.) The step is one of thread t inside a call of method o.
StepIn(t, o) ==
    /\ InCall(t)
    /\ op[t] = o
    /\ pc'[t] # pc[t] \/ (pc[t] = "cloning" /\ loc'[t] # loc[t])

\* C12: no step of peek_next(), get(), len(), is_empty(), to_vec_deque(),
\* is_fee_private(), is_fee_public() or replicate() changes a chain that
\* exists, whatever the call returns; a step that changes one is the step
\* in which next() or push() returns.
C12_ReadOnlyFrame ==
    [][/\ \A t \in Threads, o \in ReadOps :
             StepIn(t, o) => \A c \in 1..nalloc : chain'[c] = chain[c]
       /\ (\E c \in 1..nalloc : chain'[c] # chain[c]) =>
             \E t \in Threads : Returns(t, "next") \/ Returns(t, "push")
      ]_vars

\* C12, its case: replicate() has made a replica of a chain of one request,
\* get(1) has failed on the replica, and both chains are as they were.
C12_Witness ==
    /\ Done("t1", "get") /\ Failed("t1")
    /\ arg["t1"] = Index(1)
    /\ FamOf("t1") = 2
    /\ Len(input[2]) = 1
    /\ chain[1] = input[1]
    /\ chain[2] = input[2]

C14_EmptyIffLenZero ==
    /\ \A c \in 1..nalloc :
          IsEmptyResult(chain[c]) <=> (LenResult(chain[c]) = 0)
    /\ \A t \in Threads :
          /\ Done(t, "is_empty") =>
                res[t] = Ok(LenResult(chain[ChainOf(t)]) = 0)
          /\ Done(t, "len") =>
                (res[t] = Ok(0) <=> IsEmptyResult(chain[ChainOf(t)]))

\* C14, its case: is_empty() has returned true on a chain of two requests
\* that next() has emptied.
C14_Witness ==
    /\ Done("t1", "is_empty")
    /\ res["t1"] = Ok(TRUE)
    /\ Len(delivered[1]) = 2
    /\ chain[1] = <<>>

\* A queue used by one caller at a time: what method o returns on the
\* queue q with argument a (a failure without its message), and the queue
\* it leaves.
SeqFails == [kind |-> "err"]
SeqResult(o, q, a) ==
    CASE o = "next"           -> IF q = <<>> THEN SeqFails ELSE Ok(Head(q))
      [] o = "push"           -> Ok(NoArg)
      [] o = "peek_next"      -> IF q = <<>> THEN SeqFails ELSE Ok(Head(q))
      [] o = "get"            -> IF a.index + 1 \in DOMAIN q
                                 THEN Ok(q[a.index + 1]) ELSE SeqFails
      [] o = "len"            -> Ok(Len(q))
      [] o = "is_empty"       -> Ok(Len(q) = 0)
      [] o = "to_vec_deque"   -> Ok(q)
      [] o = "is_fee_private" -> Ok(SingleCall(q, "fee_private"))
      [] o = "is_fee_public"  -> Ok(SingleCall(q, "fee_public"))
SeqEffect(o, q, a) ==
    CASE o = "next" -> IF q = <<>> THEN q ELSE Tail(q)
      [] o = "push" -> Append(q, a)
      [] OTHER      -> q

\* What a caller has of result r when the message of a failure is left out.
Observed(r) == IF r.kind = "err" THEN SeqFails ELSE r

\* C15: with two threads in any of the methods on clones of one
\* authorization, the calls take effect one at a time, each at the step in
\* which it returns (a step between its call and its return): what it
\* returns and the chain it leaves are those of the one-caller queue
\* applied to the chain that the calls which returned before it have left,
\* and no other step changes a chain.
C15_Linearizable ==
    [][/\ \A t \in Threads, o \in Ops :
             Returns(t, o) =>
                LET c == ChainOf(t)
                    q == Rest(FamOf(t))
                IN /\ chain[c] = q
                   /\ chain'[c] = SeqEffect(o, q, arg'[t])
                   /\ IF o = "replicate"
                      THEN /\ res'[t].kind = "ok"
                           /\ res'[t].val.ref # c
                           /\ chain'[res'[t].val.ref] = q
                      ELSE Observed(res'[t]) = SeqResult(o, q, arg'[t])
       /\ (\A t \in Threads : pc'[t] = "done" => pc[t] = "done") =>
             \A c \in 1..nalloc : chain'[c] = chain[c]
      ]_vars

\* C15, its case: the two threads, on different clones, have returned from
\* peek_next() and from next() with the same request, the front of a chain
\* of two: peek_next() took effect first.
C15_Witness ==
    /\ Done("t1", "peek_next") /\ Done("t2", "next")
    /\ hd["t1"] # hd["t2"]
    /\ Len(input[1]) = 2
    /\ res["t1"] = Ok(input[1][1])
    /\ res["t2"] = Ok(input[1][1])
    /\ delivered[1] = <<input[1][1]>>

\* Thread t is executing the body of a method, between taking the lock of
\* its chain and returning.
Executing(t) == pc[t] \in {"locked", "matched", "popping", "cloning"}

\* The chains whose lock thread t holds, in either mode.
LocksHeld(t) == {c \in Chains : writer[c] = t \/ t \in readers[c]}

\* C16: a thread executing next() or push() holds the lock of its chain
\* exclusively: it is the writer, the lock has no reader, and no other
\* thread is executing a method on that chain. A thread executing one of
\* the read-only methods holds it shared: it is among the readers, the
\* lock has no writer, and any other thread executing on that chain is in
\* a read-only method too. Only threads executing a method hold a lock.
C16_LockDiscipline ==
    /\ \A t \in Threads :
          Executing(t) =>
             /\ op[t] \in WriteOps =>
                   /\ writer[ChainOf(t)] = t
                   /\ readers[ChainOf(t)] = {}
                   /\ \A u \in Threads \ {t} :
                         ~(Executing(u) /\ ChainOf(u) = ChainOf(t))
             /\ op[t] \in ReadOps =>
                   /\ t \in readers[ChainOf(t)]
                   /\ writer[ChainOf(t)] = "none"
                   /\ \A u \in Threads \ {t} :
                         (Executing(u) /\ ChainOf(u) = ChainOf(t))
                         => op[u] \in ReadOps
    /\ \A t \in Threads : ~Executing(t) => LocksHeld(t) = {}
    /\ \A c \in Chains : writer[c] # "none" => readers[c] = {}

\* C16, its case: the two threads hold the lock of the same chain shared
\* at the same time, one inside is_fee_private() and one inside get().
C16_Witness ==
    /\ readers[1] = Threads
    /\ writer[1] = "none"
    /\ pc["t1"] = "matched" /\ op["t1"] = "is_fee_private"
    /\ pc["t2"] = "locked" /\ op["t2"] = "get"

\* C17: a thread takes a lock only when it waits in a call and holds none,
\* and the lock it takes is that of the call's chain; it holds no lock
\* when it is not executing a method, so none when it returns; and every
\* call, on whichever handle, returns a value or an error.
C17_EveryCallReturns ==
    /\ [](\A t \in Threads :
             /\ LocksHeld(t) \subseteq {ChainOf(t)}
             /\ ~Executing(t) => LocksHeld(t) = {}
             /\ Executing(t) => LocksHeld(t) = {ChainOf(t)})
    /\ [][\A t \in Threads :
             (\E c \in Chains :
                 /\ (writer'[c] = t \/ t \in readers'[c])
                 /\ ~(writer[c] = t \/ t \in readers[c]))
             => /\ pc[t] = "wait"
                /\ LocksHeld(t) = {}
                /\ pc'[t] = "locked"
         ]_vars
    /\ \A t \in Threads :
          (pc[t] = "wait") ~> (pc[t] = "done" /\ res[t].kind \in {"ok", "err"})

\* C17, its case: one thread is inside replicate() on the shared chain,
\* holding its lock shared, while the other waits for it in push().
C17_Witness ==
    /\ pc["t1"] = "cloning" /\ op["t1"] = "replicate"
    /\ pc["t2"] = "wait" /\ op["t2"] = "push"
    /\ ChainOf("t1") = ChainOf("t2")
    /\ readers[ChainOf("t1")] = {"t1"}

\* C18: with another thread in push() and next() on the same chain, the
\* copy replicate() is making is at every moment the front of the source
\* chain, which no step changes while the copy is made; and at the step in
\* which replicate() returns, the replica's chain is the source chain as
\* it is at that step: its contents at one moment between call and return.
C18_AtomicSnapshot ==
    [][\A t \in Threads :
          /\ (Executing(t) /\ op[t] = "replicate") =>
                /\ IsPrefix(Copied(t), chain[ChainOf(t)])
                /\ chain'[ChainOf(t)] = chain[ChainOf(t)]
          /\ Returns(t, "replicate") =>
                /\ chain'[res'[t].val.ref] = chain[ChainOf(t)]
                /\ chain'[res'[t].val.ref] = Rest(FamOf(t))
                /\ Copied(t) = chain[ChainOf(t)]
      ]_vars

\* C18, its case: replicate() has returned the copy of a chain of two
\* requests, the second pushed by the other thread, which is now in next()
\* on the source.
C18_Witness ==
    /\ Done("t1", "replicate")
    /\ chain[res["t1"].val.ref] = <<FeePrivate, Transfer>>
    /\ Pushed(1) = 1
    /\ pc["t2"] = "wait" /\ op["t2"] = "next"

\* C19: in every state, also with two threads inside their calls, what
\* next() has returned on an authorization, in the order the calls took
\* effect, followed by its chain as it is, is the sequence it was
\* constructed from followed by the requests pushed to it, in the order the
\* pushes took effect; so next() has returned at most as many requests as
\* were constructed and pushed.
C19_Conservation ==
    \A h \in handles :
        LET f == h.fam
        IN /\ delivered[f] \o chain[h.ref] = input[f]
           /\ Len(delivered[f]) <= ninit[f] + Pushed(f)
           /\ Len(delivered[f]) + Len(chain[h.ref]) = ninit[f] + Pushed(f)

\* C19, its case: one request was constructed and one pushed, one was
\* returned, and the other thread is inside next() about to take the
\* request left.
C19_Witness ==
    /\ Done("t1", "push")
    /\ pc["t2"] = "popping"
    /\ ninit[1] = 1 /\ Pushed(1) = 1
    /\ Len(delivered[1]) = 1
    /\ chain[1] = <<Transfer>>
    /\ input[1] = <<FeePrivate, Transfer>>

\* C20: with the other thread in next() on a clone, is_fee_private() and
\* is_fee_public() never panic on position 0 of an empty chain; from the
\* step that reads the length to the step that returns the chain does not
\* change, the length read is the length of the chain the first request is
\* read from, and what is returned is the classification of the chain as
\* it is at that step. Of no chain reached, and of no sequence of requests,
\* are both predicates true.
C20_ClassifiesOneState ==
    /\ [](/\ \A t \in Threads :
               (pc[t] = "done" /\ op[t] \in FeeOps) =>
                   res[t] \in {Ok(TRUE), Ok(FALSE)}
          /\ \A c \in 1..nalloc :
               ~(IsFeePrivate(chain[c]) = Ok(TRUE)
                 /\ IsFeePublic(chain[c]) = Ok(TRUE))
          /\ \A q \in BSeq(Requests, MaxInit) :
               ~(IsFeePrivate(q) = Ok(TRUE) /\ IsFeePublic(q) = Ok(TRUE)))
    /\ [][\A t \in Threads :
             /\ (pc[t] = "matched") =>
                   /\ chain'[ChainOf(t)] = chain[ChainOf(t)]
                   /\ loc[t].len = Len(chain[ChainOf(t)])
             /\ Returns(t, "is_fee_private") =>
                   res'[t] = Ok(SingleCall(chain[ChainOf(t)], "fee_private"))
             /\ Returns(t, "is_fee_public") =>
                   res'[t] = Ok(SingleCall(chain[ChainOf(t)], "fee_public"))
         ]_vars

\* C20, its case: is_fee_private() has returned true of the chain of the
\* single request credits.aleo/fee_private while the other thread, on
\* another clone, is in next() and has not yet taken the request.
C20_Witness ==
    /\ Done("t1", "is_fee_private")
    /\ res["t1"] = Ok(TRUE)
    /\ pc["t2"] = "wait" /\ op["t2"] = "next"
    /\ hd["t1"] # hd["t2"]
    /\ chain[1] = <<FeePrivate>>

=============================================================================
